---- MODULE Spec2Model ----
(***************************************************************************)
(* Model of the retrieval engine (src/vector_retriever.py) and of the      *)
(* conversation orchestrator (src/rag_chain.py) of the Quita Goias RAG     *)
(* chat assistant.                                                         *)
(*                                                                         *)
(* Three specifications share the variables:                               *)
(*   Spec      the orchestrator: concurrent generate_response invocations  *)
(*             over one chat_history table;                                *)
(*   RetrSpec  the retrieval engine alone: its three retrieval operations  *)
(*             applied to stores, scores and K settings drawn from bounded *)
(*             sets.                                                       *)
(*   SeqSpec   the orchestrator called NSeq times one after another.       *)
(*   LiveSpec  the orchestrator under fair scheduling.                       *)
(*   FbSpec    save_feedback calls on stored turns.                          *)
(***************************************************************************)
EXTENDS Integers, Sequences, FiniteSets, TLC

\* ------------------------------------------------------------------ bounds
NReq == 2          \* generate_response invocations in one behaviour
MaxClock == 1      \* datetime.now() ranges over 0..MaxClock
MaxChunks == 3     \* chunks in the vector store
MaxScore == 1      \* distances and relevance scores range over 0..MaxScore
MaxK == 3          \* SEARCH_K_RAW, SEARCH_K_FINAL settings tried by RetrSpec
MaxFaults == 1     \* external calls that raise in one behaviour
NSeq == 3          \* generate_response invocations one after another (SeqSpec)
ScenarioChunks == 5 \* store size tried with the default K settings (RetrSpec)
NLive == 1         \* generate_response invocations of LiveSpec
NFb == 3           \* save_feedback calls in one behaviour (FbSpec)
FbTurns == 2       \* turns stored before the feedback calls (FbSpec)
LiveChunks == 1    \* chunks in the vector store of LiveSpec

\* ------------------------------------------------------- program constants
DEFAULT_SEARCH_K_RAW == 20
DEFAULT_SEARCH_K_FINAL == 3
\* Python's None where an int or a datetime is expected (ids start at 1,
\* clock values at 0)
None == -1

Requests == 1..NReq
SeqRequests == 1..NSeq
LiveRequests == 1..NLive
FbCalls == 1..NFb
Sessions == {"s1", "s2"}
Questions == {"q1", "q22"}
ErrMsgs == {"boom"}
Scores == 0..MaxScore

Min(a, b) == IF a <= b THEN a ELSE b

VARIABLES
    \* settings and the models loaded at start-up (read-only afterwards)
    kRaw,          \* settings.SEARCH_K_RAW
    kFinal,        \* settings.SEARCH_K_FINAL
    nChunks,       \* the vector store holds the chunks 1..nChunks
    distance,      \* [query -> [chunk -> embedding distance]]
    relevance,     \* [query -> [chunk -> cross-encoder score]]
    db_dir_exists, \* os.path.exists(settings.VECTOR_DB_DIR)
    \* the last direct call of a retrieval operation (RetrSpec)
    call,
    \* persistence and clock
    chat_history,  \* the chat_history table, in insertion (id) order
    clock,         \* the last value datetime.now() returned
    \* the chat application (app.py)
    app,           \* start-up: status, error shown, models loaded
    view,          \* what the page shows as the reply to each question
    \* one generate_response invocation per request
    pc,            \* position of the invocation
    session_id,    \* self.session_id of the chain the invocation runs on
    state,         \* the RAGState threaded through the graph
    frame,         \* locals of generate() kept across its awaits
    result,        \* the dict generate_response returned
    \* history variables (observations, not program state)
    args,          \* the arguments of the invocation and its start time
    trace,         \* nodes entered, in order
    llm_calls,     \* the LLM calls made: <<messages, outcome>>
    retr_log,      \* outcome of the retrieval call
    count_log,     \* outcomes of the two token counts
    seen,          \* row ids: committed at the begin, loaded, inserted
    faults,        \* external calls that raised so far
    raised_by,     \* the call whose exception left generate_response
    \* the feedback table and the save_feedback calls
    feedback,      \* rows of table feedback, in insertion order
    fb,            \* per save_feedback call: position, arguments, row found
    last_saved     \* per message: rating of the last call that committed

vars == <<kRaw, kFinal, nChunks, distance, relevance, db_dir_exists, call,
          chat_history, clock, app, view, pc, session_id, state, frame,
          result, args, trace, llm_calls, retr_log, count_log, seen, faults,
          raised_by, feedback, fb, last_saved>>
fbVars == <<feedback, fb, last_saved>>
cfgVars == <<kRaw, kFinal, nChunks, distance, relevance, db_dir_exists>>
pipeVars == <<chat_history, clock, app, view, pc, session_id, state, frame,
              result, args, trace, llm_calls, retr_log, count_log, seen,
              faults, raised_by>>

\* --------------------------------------------------------- python helpers
\* list.sort(key=lambda x: x[1], reverse=...) on a list of pairs: a stable
\* sort on the second component (index 2 here); with reverse=True equal keys
\* keep their original order too.
RECURSIVE Insert(_, _, _)
Insert(x, s, reverse) ==
    IF s = <<>> THEN <<x>>
    ELSE LET h == Head(s)
             before == IF reverse THEN x[2] > h[2] ELSE x[2] < h[2]
         IN  IF before THEN <<x>> \o s
             ELSE <<h>> \o Insert(x, Tail(s), reverse)

RECURSIVE PySort(_, _)
PySort(s, reverse) ==
    IF s = <<>> THEN <<>>
    ELSE Insert(s[Len(s)], PySort(SubSeq(s, 1, Len(s) - 1), reverse), reverse)

\* s[:k] for k >= 0
PyPrefix(s, k) == SubSeq(s, 1, Min(k, Len(s)))

\* sep.join(parts)
RECURSIVE Join(_, _)
Join(parts, sep) ==
    IF parts = <<>> THEN ""
    ELSE IF Len(parts) = 1 THEN parts[1]
    ELSE parts[1] \o sep \o Join(Tail(parts), sep)

\* ------------------------------------------------------ retrieval engine
\* Text is a sequence of fragments; a placeholder of the prompt template is
\* one fragment.
DATE_PLACEHOLDER == "{{DATA_ATUAL}}"
CONTEXT_PLACEHOLDER == "{{INSERIR_CONTEXTO_AQUI}}"

\* text.replace(old, new): every fragment `old` gives way to the text `new`.
RECURSIVE Replace(_, _, _)
Replace(text, old, new) ==
    IF text = <<>> THEN <<>>
    ELSE (IF Head(text) = old THEN new ELSE <<Head(text)>>)
         \o Replace(Tail(text), old, new)

\* sep.join(parts) for texts.
RECURSIVE JoinText(_, _)
JoinText(parts, sep) ==
    IF parts = <<>> THEN <<>>
    ELSE IF Len(parts) = 1 THEN parts[1]
    ELSE parts[1] \o <<sep>> \o JoinText(Tail(parts), sep)

\* The string a text stands for.
Flat(text) == Join(text, "")

\* A Document of the store: chunk c with its page_content.  The documents
\* are whatever text was ingested: the last chunk of a full store quotes
\* the date placeholder.
Doc(c) ==
    [chunk |-> c,
     page_content |-> IF c = MaxChunks
                      THEN <<"doc" \o ToString(c), " ", DATE_PLACEHOLDER>>
                      ELSE <<"doc" \o ToString(c)>>]

\* Mutant of SimilaritySearchWithScore: a search takes what it returns out
\* of the store, so a search after a first call finds the nearest chunk gone.
SimilaritySearchConsuming(query, k) ==
    LET found == PyPrefix(PySort([c \in 1..nChunks |->
                                     <<Doc(c), distance[query][c]>>],
                                 FALSE), k)
    IN  IF call.op = "none" \/ found = <<>> THEN found ELSE Tail(found)

\* vectordb.similarity_search_with_score(query, k): the k nearest chunks
\* as (Document, distance) pairs, nearest first.
SimilaritySearchWithScore(query, k) ==
    PyPrefix(PySort([c \in 1..nChunks |-> <<Doc(c), distance[query][c]>>],
                    FALSE), k)

\* Mutant of Predict: the scores come back in the opposite order of the
\* pairs.
PredictReversed(query, candidates) ==
    [i \in 1..Len(candidates) |->
        relevance[query][candidates[Len(candidates) + 1 - i][1].chunk]]

\* cross_encoder.predict(pairs): one score per (query, page_content) pair,
\* order preserved.
Predict(query, candidates) ==
    [i \in 1..Len(candidates) |-> relevance[query][candidates[i][1].chunk]]

\* Mutant of RecallCandidates: the store asked for SEARCH_K_FINAL results.
RecallCandidatesKFinal(query) == SimilaritySearchWithScore(query, kFinal)

\* Stage 1 of retrieve_context_with_scores: the recall candidates.
RecallCandidates(query) == SimilaritySearchWithScore(query, kRaw)

\* Mutant of RerankSort: reverse=True forgotten.
RerankSortAscending(zipped) == PySort(zipped, FALSE)

\* Mutant of RerankSort: sorted ascending and then reversed, which turns
\* the order of equal scores round.
RerankSortReversed(zipped) ==
    LET asc == PySort(zipped, FALSE)
    IN  [i \in 1..Len(asc) |-> asc[Len(asc) + 1 - i]]

\* Stage 2: zip with the rerank scores and sort, best first.
RerankSort(zipped) == PySort(zipped, TRUE)

\* Mutant of TopK: the slice taken with SEARCH_K_RAW.
TopKRaw(reranked) == PyPrefix(reranked, kRaw)

\* Truncation to the final context size.
TopK(reranked) == PyPrefix(reranked, kFinal)

\* What a call does: it returns a value or raises.
Return(value) == [raised |-> FALSE, value |-> value]
Raise == [raised |-> TRUE, value |-> <<>>]

\* Mutant of RetrieveContextWithScores: the re-ranking is not in a try
\* block, so a scorer exception leaves the call.
RetrieveContextWithScoresNoTry(query, search, scorer) ==
    IF search = "raise" THEN Raise
    ELSE LET results_with_scores == RecallCandidates(query)
         IN  IF results_with_scores = <<>> THEN Return(<<>>)
             ELSE IF scorer = "raise" THEN Raise
             ELSE LET zipped == [i \in 1..Len(results_with_scores) |->
                          <<results_with_scores[i],
                            Predict(query, results_with_scores)[i]>>]
                      top == PyPrefix(PySort(zipped, TRUE), kFinal)
                  IN  Return([i \in 1..Len(top) |->
                                 <<top[i][1][1], top[i][2]>>])

\* Mutant of RetrieveContextWithScores: no early return on an empty recall,
\* and the scorer rejects an empty batch outside the try block.
RetrieveContextWithScoresNoEmptyCheck(query, search, scorer) ==
    IF search = "raise" THEN Raise
    ELSE LET results_with_scores == RecallCandidates(query)
         IN  IF results_with_scores = <<>> THEN Raise
             ELSE IF scorer = "raise" THEN Return(<<>>)
             ELSE LET zipped == [i \in 1..Len(results_with_scores) |->
                          <<results_with_scores[i],
                            Predict(query, results_with_scores)[i]>>]
                      top == PyPrefix(PySort(zipped, TRUE), kFinal)
                  IN  Return([i \in 1..Len(top) |->
                                 <<top[i][1][1], top[i][2]>>])

\* retrieve_context_with_scores(query).  search and scorer say whether the
\* vector search and the cross-encoder return ("ok") or raise ("raise"); the
\* vector search is outside the try block, the re-ranking inside it.
RetrieveContextWithScores(query, search, scorer) ==
    IF search = "raise" THEN Raise
    ELSE LET results_with_scores == RecallCandidates(query)
         IN  IF results_with_scores = <<>> THEN Return(<<>>)
             ELSE IF scorer = "raise" THEN Return(<<>>)
             ELSE LET rerank_scores == Predict(query, results_with_scores)
                      reranked_results ==
                          RerankSort([i \in 1..Len(results_with_scores) |->
                              <<results_with_scores[i], rerank_scores[i]>>])
                      top_k_results == TopK(reranked_results)
                  IN  Return([i \in 1..Len(top_k_results) |->
                          <<top_k_results[i][1][1], top_k_results[i][2]>>])

\* retrieve_context(query): the documents alone.
RetrieveContext(query, search, scorer) ==
    LET results_with_scores ==
            RetrieveContextWithScores(query, search, scorer)
    IN  IF results_with_scores.raised THEN Raise
        ELSE Return([i \in 1..Len(results_with_scores.value) |->
                        results_with_scores.value[i][1]])

\* Mutant of DistanceSort: sorted farthest first.
DistanceSortDescending(results) == PySort(results, TRUE)

\* The sort of retrieve_context_vector_search_only: nearest first.
DistanceSort(results) == PySort(results, FALSE)

\* The k that retrieve_context_vector_search_only asks the store for.
VectorOnlyK == kFinal

\* retrieve_context_vector_search_only(query): the whole body is in the try
\* block.
RetrieveContextVectorSearchOnly(query, search) ==
    IF search = "raise" THEN Return(<<>>)
    ELSE LET results_with_scores ==
                 SimilaritySearchWithScore(query, VectorOnlyK)
         IN  IF results_with_scores = <<>> THEN Return(<<>>)
             ELSE Return(DistanceSort(results_with_scores))

\* ------------------------------------------- direct retrieval calls
\* One direct call per behaviour: `call` records the operation, its query,
\* what the external models did, the recall candidates and the outcome.
NoRerun == [done |-> FALSE, search |-> "none", scorer |-> "none",
            raised |-> FALSE, result |-> <<>>]
NoCall == [op |-> "none", query |-> "q1", search |-> "none",
           scorer |-> "none", raised |-> FALSE, candidates |-> <<>>,
           result |-> <<>>, again |-> NoRerun]

\* The scorer runs only when the search returned candidates.
ScorerRuns(query, search) ==
    search = "ok" /\ RecallCandidates(query) # <<>>

CallRecord(op, query, search, scorer, outcome) ==
    [op |-> op, query |-> query, search |-> search,
     scorer |-> IF ScorerRuns(query, search) THEN scorer ELSE "none",
     raised |-> outcome.raised,
     candidates |-> IF search = "ok" /\ op # "vector_only"
                    THEN RecallCandidates(query) ELSE <<>>,
     result |-> outcome.value,
     again |-> NoRerun]

\* results_map of display_search_results: rank i + 1 for the i-th result.
DisplaySearchResults(results_with_scores) ==
    [rank \in 1..Len(results_with_scores) |-> results_with_scores[rank]]

\* A caller (the validation dashboard) runs retrieve_context_with_scores.
CallRetrieveContextWithScores ==
    /\ call.op = "none"
    /\ \E query \in Questions, search \in {"ok", "raise"},
          scorer \in {"ok", "raise"} :
         call' = CallRecord("with_scores", query, search, scorer,
                    RetrieveContextWithScores(query, search, scorer))
    /\ UNCHANGED <<cfgVars, fbVars, pipeVars>>

\* The caller runs retrieve_context_with_scores once more with the query of
\* its last call.
RerunRetrieveContextWithScores ==
    /\ call.op = "with_scores"
    /\ ~call.again.done
    /\ \E search \in {"ok", "raise"}, scorer \in {"ok", "raise"} :
         LET outcome == RetrieveContextWithScores(call.query, search, scorer)
         IN  call' = [call EXCEPT !.again =
                 [done |-> TRUE, search |-> search,
                  scorer |-> IF ScorerRuns(call.query, search)
                             THEN scorer ELSE "none",
                  raised |-> outcome.raised, result |-> outcome.value]]
    /\ UNCHANGED <<cfgVars, fbVars, pipeVars>>

\* A caller runs retrieve_context_vector_search_only.
CallRetrieveContextVectorSearchOnly ==
    /\ call.op = "none"
    /\ \E query \in Questions, search \in {"ok", "raise"} :
         call' = CallRecord("vector_only", query, search, "ok",
                    RetrieveContextVectorSearchOnly(query, search))
    /\ UNCHANGED <<cfgVars, fbVars, pipeVars>>

\* A caller runs retrieve_context.
CallRetrieveContext ==
    /\ call.op = "none"
    /\ \E query \in Questions, search \in {"ok", "raise"},
          scorer \in {"ok", "raise"} :
         call' = CallRecord("context", query, search, scorer,
                    RetrieveContext(query, search, scorer))
    /\ UNCHANGED <<cfgVars, fbVars, pipeVars>>

\* ------------------------------------------------------------ clock
\* datetime.now(): a value not before the last one read.
Now(last) == last..Min(last + 1, MaxClock)

\* An external call returns ("ok") or, while the behaviour's fault budget
\* lasts, raises.
Outcomes(spent) == IF faults + spent < MaxFaults THEN {"ok", "raise"}
                   ELSE {"ok"}
Cost(outcome) == IF outcome = "ok" THEN 0 ELSE 1

\* ------------------------------------------------- the chat application
\* The models VectorRetriever.__init__ loads, in its order.
ModelLoads == <<"embeddings", "vectordb", "cross_encoder">>

\* Mutant of VectorRetrieverInit: no check of the directory; the store
\* client opens an empty store where there is none.
VectorRetrieverInitNoCheck(dir_exists, failing) ==
    IF failing = 0
    THEN [raised |-> "", attempted |-> ModelLoads]
    ELSE [raised |-> "Exception",
          attempted |-> SubSeq(ModelLoads, 1, failing)]

\* VectorRetriever.__init__: FileNotFoundError when the directory of the
\* vector store is absent; otherwise the loads, of which the one numbered
\* `failing` raises (0: none does) and the exception is raised again.
VectorRetrieverInit(dir_exists, failing) ==
    IF ~dir_exists
    THEN [raised |-> "FileNotFoundError", attempted |-> <<>>]
    ELSE IF failing = 0
    THEN [raised |-> "", attempted |-> ModelLoads]
    ELSE [raised |-> "Exception",
          attempted |-> SubSeq(ModelLoads, 1, failing)]

\* st.error of the start-up's except clauses.
StartupError(raised) ==
    IF raised = "FileNotFoundError"
    THEN "Execute 'python ingest.py' antes de iniciar o aplicativo."
    ELSE "Erro ao inicializar a RAG Chain"

NoApp == [status |-> "starting", error |-> "", attempted |-> <<>>,
          constructions |-> 0]

\* The script's start-up: RAGChain(session_id) builds the VectorRetriever;
\* on an exception the page shows the error and st.stop() ends the run
\* before the chat input is drawn.
AppStart ==
    /\ app.status = "starting"
    /\ \E failing \in 0..Len(ModelLoads) :
         LET retriever == VectorRetrieverInit(db_dir_exists, failing)
         IN  app' = [status |-> IF retriever.raised = "" THEN "ready"
                                ELSE "halted",
                     error |-> IF retriever.raised = "" THEN ""
                               ELSE StartupError(retriever.raised),
                     attempted |-> retriever.attempted,
                     constructions |-> app.constructions + 1]
    /\ UNCHANGED <<cfgVars, fbVars, call, chat_history, clock, view, pc, session_id,
                   state, frame, result, args, trace, llm_calls, retr_log,
                   count_log, seen, faults, raised_by>>

NoView == [answer |-> "", error |-> "", feedback_buttons |-> FALSE]

\* The page after generate_response returned response_dict.
AppShowsResponse(response_dict) ==
    [answer |-> response_dict.answer, error |-> "",
     feedback_buttons |-> response_dict.message_id # None]

\* The page after generate_response raised e.
AppShowsError(e) ==
    [answer |-> "", error |-> "Ocorreu um erro ao gerar a resposta: " \o e,
     feedback_buttons |-> FALSE]

\* ------------------------------------------------------- the graph
\* Mutant of GraphEdges: the first two nodes wired the other way round.
GraphEdgesSwapped == {<<"START", "retrieve">>,
                      <<"retrieve", "load_history">>,
                      <<"load_history", "generate">>}

\* Mutant of GraphEdges: generate wired back to itself.
GraphEdgesRetrying == {<<"START", "load_history">>,
                       <<"load_history", "retrieve">>,
                       <<"retrieve", "generate">>,
                       <<"generate", "generate">>}

\* Mutant of GraphEdges: generate wired back to load_history.
GraphEdgesCycle == {<<"START", "load_history">>,
                    <<"load_history", "retrieve">>,
                    <<"retrieve", "generate">>,
                    <<"generate", "load_history">>}

\* graph.add_edge(...) of RAGChain.__init__.
GraphEdges == {<<"START", "load_history">>,
               <<"load_history", "retrieve">>,
               <<"retrieve", "generate">>}

\* The node the compiled graph runs after node n; a node without an outgoing
\* edge ends the run.
NextNode(n) ==
    IF \E e \in GraphEdges : e[1] = n
    THEN (CHOOSE e \in GraphEdges : e[1] = n)[2]
    ELSE "END"

NoResult == [answer |-> "", message_id |-> None]
NoFrame == [answer |-> "", user_tokens |-> 0, response_end_time |-> None]
NoState == [question |-> "", context |-> <<>>, answer |-> "",
            history |-> <<>>, request_start_time |-> None,
            retrieval_end_time |-> None, new_message_id |-> None,
            is_synthetic |-> FALSE]

\* initial_state of generate_response; t1 and t2 are its two clock reads.
InitialState(question, is_synthetic, t1, t2) ==
    [question |-> question, context |-> <<>>, answer |-> "",
     history |-> <<>>, request_start_time |-> t1,
     retrieval_end_time |-> t2, new_message_id |-> None,
     is_synthetic |-> is_synthetic]

\* Mutant of ResponseOf: the id read under a key the state does not have.
ResponseOfWrongKey(final) ==
    [answer |-> final.answer, message_id |-> None]

\* generate_response's return statement, on the state graph.ainvoke returned.
ResponseOf(final) ==
    [answer |-> final.answer, message_id |-> final.new_message_id]

\* Node `node` of request r returned: its update is merged into the state
\* and the graph moves on, or ends and generate_response returns (the
\* pipeline state dies with the invocation).
NodeReturns(r, node, newState) ==
    /\ IF NextNode(node) = "END"
       THEN /\ pc' = [pc EXCEPT ![r] = "done"]
            /\ result' = [result EXCEPT ![r] = ResponseOf(newState)]
            /\ view' = [view EXCEPT ![r] =
                           AppShowsResponse(ResponseOf(newState))]
            /\ state' = [state EXCEPT ![r] = NoState]
       ELSE /\ pc' = [pc EXCEPT ![r] = NextNode(node)]
            /\ state' = [state EXCEPT ![r] = newState]
            /\ UNCHANGED <<result, view>>
    /\ UNCHANGED raised_by

\* An exception leaves the node, graph.ainvoke and generate_response; the
\* page's except clause shows it.
NodeRaises(r, cause) ==
    /\ pc' = [pc EXCEPT ![r] = "raised"]
    /\ view' = [view EXCEPT ![r] = AppShowsError(cause)]
    /\ state' = [state EXCEPT ![r] = NoState]
    /\ raised_by' = [raised_by EXCEPT ![r] = cause]
    /\ UNCHANGED result

\* The ids of the rows of the table.
RowIds == {chat_history[i].id : i \in 1..Len(chat_history)}

\* ------------------------------------------------------ generate_response
\* generate_response(question, is_synthetic) builds the initial state and
\* starts the graph.  Requests begin in the order of their numbers, the
\* first one on session "s1".
Begin(r) ==
    /\ app.status = "ready"
    /\ pc[r] = "idle"
    /\ IF r = 1 THEN TRUE ELSE pc[r - 1] # "idle"
    /\ \E sid \in (IF r = 1 THEN {"s1"} ELSE Sessions),
          question \in Questions, is_synthetic \in BOOLEAN :
       \E t1 \in Now(clock) : \E t2 \in Now(t1) :
         /\ session_id' = [session_id EXCEPT ![r] = sid]
         /\ state' = [state EXCEPT ![r] =
                InitialState(question, is_synthetic, t1, t2)]
         /\ args' = [args EXCEPT ![r] =
                [question |-> question, is_synthetic |-> is_synthetic,
                 request_start_time |-> t1]]
         /\ clock' = t2
    /\ pc' = [pc EXCEPT ![r] = NextNode("START")]
    /\ seen' = [seen EXCEPT ![r].at_start = RowIds]
    /\ UNCHANGED <<cfgVars, fbVars, call, chat_history, app, view, frame, result,
                   trace, llm_calls, retr_log, count_log, faults, raised_by>>

\* Mutant of WhereSession: the where clause forgotten.
RECURSIVE WhereAnySession(_, _)
WhereAnySession(rows, sid) ==
    IF rows = <<>> THEN <<>>
    ELSE <<<<Head(rows), Head(rows).request_start_time>>>>
         \o WhereAnySession(Tail(rows), sid)

\* .where(ChatHistory.session_id == sid): the rows of the session, in table
\* order, each paired with its sort key.
RECURSIVE WhereSession(_, _)
WhereSession(rows, sid) ==
    IF rows = <<>> THEN <<>>
    ELSE (IF Head(rows).session_id = sid
          THEN <<<<Head(rows), Head(rows).request_start_time>>>>
          ELSE <<>>)
         \o WhereSession(Tail(rows), sid)

\* select(ChatHistory).where(...).order_by(ChatHistory.request_start_time)
SelectHistory(sid) ==
    LET sorted == PySort(WhereSession(chat_history, sid), FALSE)
    IN  [i \in 1..Len(sorted) |-> sorted[i][1]]

\* Mutant of HistoryMessages: the assistant's message put first.
RECURSIVE HistoryMessagesSwapped(_)
HistoryMessagesSwapped(records) ==
    IF records = <<>> THEN <<>>
    ELSE <<[type |-> "ai", content |-> records[1].bot_response],
           [type |-> "human", content |-> records[1].user_message]>>
         \o HistoryMessagesSwapped(Tail(records))

\* The message pairs load_history builds from the records.
RECURSIVE HistoryMessages(_)
HistoryMessages(records) ==
    IF records = <<>> THEN <<>>
    ELSE <<[type |-> "human", content |-> records[1].user_message],
           [type |-> "ai", content |-> records[1].bot_response]>>
         \o HistoryMessages(Tail(records))

\* Mutant of LoadHistoryUpdate: the flag returned as its default.
LoadHistoryUpdateDefaultFlag(st, history_records) ==
    [st EXCEPT !.history = HistoryMessages(history_records),
               !.request_start_time = st.request_start_time,
               !.new_message_id = None,
               !.is_synthetic = FALSE]

\* The state after load_history's returned dict is merged in.
LoadHistoryUpdate(st, history_records) ==
    [st EXCEPT !.history = HistoryMessages(history_records),
               !.request_start_time = st.request_start_time,
               !.new_message_id = None,
               !.is_synthetic = st.is_synthetic]

\* Node load_history.
LoadHistory(r) ==
    /\ pc[r] = "load_history"
    /\ trace' = [trace EXCEPT ![r] = Append(@, "load_history")]
    /\ \E db \in Outcomes(0) :
         /\ faults' = faults + Cost(db)
         /\ IF db = "raise"
            THEN /\ NodeRaises(r, "history_query")
                 /\ UNCHANGED seen
            ELSE LET history_records == SelectHistory(session_id[r])
                 IN  /\ NodeReturns(r, "load_history",
                           LoadHistoryUpdate(state[r], history_records))
                     /\ seen' = [seen EXCEPT ![r].loaded =
                           {history_records[i].id :
                               i \in 1..Len(history_records)}]
    /\ UNCHANGED <<cfgVars, fbVars, call, chat_history, clock, app, session_id,
                   frame, args, llm_calls, retr_log, count_log>>

\* Mutant of RetrieveUpdate: retrieval_end_time not returned, the value of
\* the initial state stays.
RetrieveUpdateNoTime(st, retrieved_docs, now) ==
    [st EXCEPT !.context = retrieved_docs]

\* The state after retrieve's returned dict is merged in.
RetrieveUpdate(st, retrieved_docs, now) ==
    [st EXCEPT !.context = retrieved_docs, !.retrieval_end_time = now]

\* Node retrieve.
Retrieve(r) ==
    /\ pc[r] = "retrieve"
    /\ trace' = [trace EXCEPT ![r] = Append(@, "retrieve")]
    /\ \E search \in Outcomes(0) :
       \E scorer \in (IF ScorerRuns(state[r].question, search)
                      THEN Outcomes(0) ELSE {"ok"}) :
         LET retrieved ==
                 RetrieveContext(state[r].question, search, scorer)
             observed ==
                     [search |-> search,
                      scorer |-> IF ScorerRuns(state[r].question, search)
                                 THEN scorer ELSE "none",
                      context |-> retrieved.value,
                      retrieval_end_time |-> None]
         IN  /\ faults' = faults + Cost(search) + Cost(scorer)
             /\ IF retrieved.raised
                THEN /\ NodeRaises(r, "retrieval")
                     /\ retr_log' = [retr_log EXCEPT ![r] = observed]
                     /\ UNCHANGED clock
                ELSE \E t \in Now(clock) :
                       /\ NodeReturns(r, "retrieve",
                            RetrieveUpdate(state[r], retrieved.value, t))
                       /\ retr_log' = [retr_log EXCEPT ![r] =
                              [observed EXCEPT !.retrieval_end_time = t]]
                       /\ clock' = t
    /\ UNCHANGED <<cfgVars, fbVars, call, chat_history, app, session_id, frame,
                   args, llm_calls, count_log, seen>>

\* ---------------------------------------------------------- generate
\* self.system_prompt, shortened to the text around its two placeholders.
system_prompt ==
    <<"Data atual do sistema: ", DATE_PLACEHOLDER, " <documentos_oficiais>",
      CONTEXT_PLACEHOLDER, "</documentos_oficiais>">>

\* final_system_prompt: the context put into the template, then the date put
\* into the outcome of that.
SystemPrompt(docs_content, current_date) ==
    Flat(Replace(Replace(system_prompt, CONTEXT_PLACEHOLDER, docs_content),
                 DATE_PLACEHOLDER, <<current_date>>))

\* docs_content: the page contents joined by a blank line.
DocsContent(context) ==
    JoinText([i \in 1..Len(context) |-> context[i].page_content], "\n\n")

\* The message list generate() sends to the LLM.
BuildMessages(st, current_date) ==
    <<[type |-> "system",
       content |-> SystemPrompt(DocsContent(st.context), current_date)]>>
    \o st.history
    \o <<[type |-> "human", content |-> st.question]>>

\* Stand-ins for the tokenizer of the LLM client: positive counts.
NumTokensFromMessages(messages) == Len(messages)
NumTokens(text) == Len(text)

\* Mutant of UserTokens: no except clause sets the count to 0; a count made
\* before stays.
UserTokensNoDefault(messages, counting) == NumTokensFromMessages(messages)

\* The two token counts, each in its own try block.
UserTokens(messages, counting) ==
    IF counting = "ok" THEN NumTokensFromMessages(messages) ELSE 0
BotTokens(answer, counting) ==
    IF counting = "ok" THEN NumTokens(answer) ELSE 0

\* Stand-in for the LLM (temperature 0): it answers the last message.
LLMAnswer(messages) == "Re: " \o messages[Len(messages)].content

\* Mutant of TechnicalError: the exception text alone.
TechnicalErrorBare(e) == e

\* The answer generate() returns when the LLM call raised e.
TechnicalError(e) == "Erro técnico: " \o e

\* The state after generate's early return on an LLM exception.
GenerateErrorUpdate(st, e) ==
    [st EXCEPT !.answer = TechnicalError(e), !.new_message_id = None]

\* Mutant of GenerateUpdate: the id of the row before the new one returned.
GenerateUpdateStaleId(st, answer, new_message_id) ==
    [st EXCEPT !.answer = answer,
               !.new_message_id = IF new_message_id > 1
                                  THEN new_message_id - 1 ELSE None]

\* The state after generate's final return.
GenerateUpdate(st, answer, new_message_id) ==
    [st EXCEPT !.answer = answer, !.new_message_id = new_message_id]

\* Node generate, up to the return of `await self.model.ainvoke(messages)`.
GenerateInvoke(r) ==
    /\ pc[r] = "generate"
    /\ trace' = [trace EXCEPT ![r] = Append(@, "generate")]
    /\ \E counting \in Outcomes(0) : \E llm \in Outcomes(Cost(counting)) :
       \E e \in ErrMsgs :
         LET messages == BuildMessages(state[r], ToString(clock))
         IN  /\ faults' = faults + Cost(counting) + Cost(llm)
             /\ count_log' = [count_log EXCEPT ![r].user = counting]
             /\ llm_calls' = [llm_calls EXCEPT ![r] =
                    Append(@, [messages |-> messages, outcome |-> llm,
                               error |-> IF llm = "raise" THEN e ELSE ""])]
             /\ IF llm = "raise"
                THEN /\ NodeReturns(r, "generate",
                            GenerateErrorUpdate(state[r], e))
                     /\ UNCHANGED <<frame, clock>>
                ELSE \E t \in Now(clock) :
                       /\ frame' = [frame EXCEPT ![r] =
                            [answer |-> LLMAnswer(messages),
                             user_tokens |-> UserTokens(messages, counting),
                             response_end_time |-> t]]
                       /\ clock' = t
                       /\ pc' = [pc EXCEPT ![r] = "save_message"]
                       /\ UNCHANGED <<state, result, raised_by, view>>
    /\ UNCHANGED <<cfgVars, fbVars, call, chat_history, app, session_id, args,
                   retr_log, seen>>

\* Mutant of ChatEntry: response_end_time and the durations left to the
\* column defaults.
ChatEntryPartial(id, sid, user_msg, bot_msg, is_synthetic, metrics) ==
    [id |-> id,
     session_id |-> sid,
     user_message |-> user_msg,
     bot_response |-> bot_msg,
     is_synthetic |-> is_synthetic,
     user_chars |-> metrics.user_chars,
     bot_chars |-> metrics.bot_chars,
     user_tokens |-> metrics.user_tokens,
     bot_tokens |-> metrics.bot_tokens,
     request_start_time |-> metrics.request_start_time,
     retrieval_end_time |-> metrics.retrieval_end_time,
     response_end_time |-> None,
     retrieval_duration_sec |-> 0,
     generation_duration_sec |-> 0,
     total_duration_sec |-> 0]

\* Mutant of ChatEntry: the generation time subtracted the wrong way round.
ChatEntrySwapped(id, sid, user_msg, bot_msg, is_synthetic, metrics) ==
    LET req_start == metrics.request_start_time
        ret_end == metrics.retrieval_end_time
        res_end == metrics.response_end_time
    IN  [id |-> id,
         session_id |-> sid,
         user_message |-> user_msg,
         bot_response |-> bot_msg,
         is_synthetic |-> is_synthetic,
         user_chars |-> metrics.user_chars,
         bot_chars |-> metrics.bot_chars,
         user_tokens |-> metrics.user_tokens,
         bot_tokens |-> metrics.bot_tokens,
         request_start_time |-> req_start,
         retrieval_end_time |-> ret_end,
         response_end_time |-> res_end,
         retrieval_duration_sec |-> ret_end - req_start,
         generation_duration_sec |-> ret_end - res_end,
         total_duration_sec |-> res_end - req_start]

\* The ChatHistory object save_message_async builds; the table assigns id.
ChatEntry(id, sid, user_msg, bot_msg, is_synthetic, metrics) ==
    LET req_start == metrics.request_start_time
        ret_end == metrics.retrieval_end_time
        res_end == metrics.response_end_time
    IN  [id |-> id,
         session_id |-> sid,
         user_message |-> user_msg,
         bot_response |-> bot_msg,
         is_synthetic |-> is_synthetic,
         user_chars |-> metrics.user_chars,
         bot_chars |-> metrics.bot_chars,
         user_tokens |-> metrics.user_tokens,
         bot_tokens |-> metrics.bot_tokens,
         request_start_time |-> req_start,
         retrieval_end_time |-> ret_end,
         response_end_time |-> res_end,
         retrieval_duration_sec |-> ret_end - req_start,
         generation_duration_sec |-> res_end - ret_end,
         total_duration_sec |-> res_end - req_start]

\* Mutant of Metrics: the timestamps read from a state the invocations
\* share, which the one that began last has overwritten.
MetricsSharedState(st, fr, bot_tokens) ==
    LET live == {r \in DOMAIN pc : pc[r] \notin {"idle", "done", "raised"}}
        latest == CHOOSE r \in live : \A r2 \in live : r2 <= r
    IN  [user_chars |-> Len(st.question),
         bot_chars |-> Len(fr.answer),
         user_tokens |-> fr.user_tokens,
         bot_tokens |-> bot_tokens,
         request_start_time |-> state[latest].request_start_time,
         retrieval_end_time |-> state[latest].retrieval_end_time,
         response_end_time |-> fr.response_end_time]

\* The metrics dict generate() hands to save_message_async.
Metrics(st, fr, bot_tokens) ==
    [user_chars |-> Len(st.question),
     bot_chars |-> Len(fr.answer),
     user_tokens |-> fr.user_tokens,
     bot_tokens |-> bot_tokens,
     request_start_time |-> st.request_start_time,
     retrieval_end_time |-> st.retrieval_end_time,
     response_end_time |-> fr.response_end_time]

\* The primary key the table gives a new row.
NextId == Len(chat_history) + 1

\* Mutant of CommitRow: a question the session already asked is not stored
\* again.
CommitRowDedup(rows, chat_entry) ==
    IF \E i \in 1..Len(rows) :
           /\ rows[i].session_id = chat_entry.session_id
           /\ rows[i].user_message = chat_entry.user_message
    THEN rows
    ELSE Append(rows, chat_entry)

\* Mutant of CommitRow: one row per session, the last write wins.
CommitRowLastWins(rows, chat_entry) ==
    IF \E i \in 1..Len(rows) : rows[i].session_id = chat_entry.session_id
    THEN [i \in 1..Len(rows) |->
             IF rows[i].session_id = chat_entry.session_id
             THEN chat_entry ELSE rows[i]]
    ELSE Append(rows, chat_entry)

\* Mutant of CommitRow: the insert also blanks the answers of the rows the
\* session already has.
CommitRowRewriting(rows, chat_entry) ==
    Append([i \in 1..Len(rows) |->
               IF rows[i].session_id = chat_entry.session_id
               THEN [rows[i] EXCEPT !.bot_response = ""] ELSE rows[i]],
           chat_entry)

\* session.add(chat_entry) and session.commit(): an INSERT of one new row.
CommitRow(rows, chat_entry) == Append(rows, chat_entry)

\* Node generate, after the LLM answered: count the answer's tokens, save
\* the turn and return.  commit may raise (nothing is stored) and refresh
\* may raise (the row is stored); either exception leaves generate_response.
GenerateSave(r) ==
    /\ pc[r] = "save_message"
    /\ \E counting \in Outcomes(0) :
       \E db \in (IF faults + Cost(counting) < MaxFaults
                  THEN {"ok", "commit_raise", "refresh_raise"} ELSE {"ok"}) :
         LET chat_entry ==
                 ChatEntry(NextId, session_id[r], state[r].question,
                           frame[r].answer, state[r].is_synthetic,
                           Metrics(state[r], frame[r],
                                   BotTokens(frame[r].answer, counting)))
         IN  /\ faults' = faults + Cost(counting) + Cost(db)
             /\ count_log' = [count_log EXCEPT ![r].bot = counting]
             /\ frame' = [frame EXCEPT ![r] = NoFrame]
             /\ IF db = "commit_raise"
                THEN UNCHANGED <<chat_history, seen>>
                ELSE /\ chat_history' = CommitRow(chat_history, chat_entry)
                     /\ seen' = [seen EXCEPT ![r].inserted =
                                    @ \cup {chat_entry.id}]
             /\ IF db = "ok"
                THEN NodeReturns(r, "generate",
                        GenerateUpdate(state[r], frame[r].answer,
                                       chat_entry.id))
                ELSE NodeRaises(r, db)
    /\ UNCHANGED <<cfgVars, fbVars, call, clock, app, session_id, args, trace,
                   llm_calls, retr_log>>

\* ------------------------------------------------------------- feedback
\* The ratings the page's two buttons send, and the comments (the page sends
\* none).
Ratings == {"like", "dislike"}
NoComment == "None"
Comments == {NoComment, "why"}

\* The NULL an outer join gives a turn without feedback.
NoRating == "NULL"

NoFeedbackCall == [pc |-> "idle", message_id |-> None, rating |-> NoRating, comment |-> NoComment, existing |-> None, error |-> ""]

\* select(Feedback).where(Feedback.message_id == message_id) ... .first():
\* the id of the first row found, or None.
RECURSIVE FirstFeedback(_, _)
FirstFeedback(rows, message_id) ==
    IF rows = <<>> THEN None
    ELSE IF Head(rows).message_id = message_id THEN Head(rows).id
    ELSE FirstFeedback(Tail(rows), message_id)

\* Feedback(message_id=..., rating=..., comment=...): timestamp takes its
\* default, the table assigns id.
NewFeedback(id, message_id, rating, comment, now) ==
    [id |-> id, message_id |-> message_id, rating |-> rating,
     comment |-> comment, timestamp |-> now]

\* The row existing_feedback after the three assignments, written by commit.
UpdateFeedback(rows, id, rating, comment, now) ==
    [i \in 1..Len(rows) |->
        IF rows[i].id = id
        THEN [rows[i] EXCEPT !.rating = rating, !.comment = comment,
                             !.timestamp = now]
        ELSE rows[i]]

\* Mutant of UniqueViolation: column message_id without unique=True.
UniqueViolationOff(rows, new_feedback) == FALSE

\* message_id is declared unique: the table refuses a second row for a
\* message.
UniqueViolation(rows, new_feedback) ==
    \E i \in 1..Len(rows) : rows[i].message_id = new_feedback.message_id

\* save_feedback(message_id, rating, comment) up to the return of
\* `await session.execute(statement)`.  Calls begin in the order of their
\* numbers.
SaveFeedbackSelect(c) ==
    /\ app.status = "ready"
    /\ fb[c].pc = "idle"
    /\ IF c = 1 THEN TRUE ELSE fb[c - 1].pc # "idle"
    /\ \E message_id \in 1..Len(chat_history), rating \in Ratings,
          comment \in Comments :
         fb' = [fb EXCEPT ![c] =
                  [pc |-> "selected", message_id |-> message_id,
                   rating |-> rating, comment |-> comment,
                   existing |-> FirstFeedback(feedback, message_id),
                   error |-> ""]]
    /\ UNCHANGED <<cfgVars, call, pipeVars, feedback, last_saved>>

\* save_feedback from the row found (or not) to the end of
\* `await session.commit()`: the update of the row found, or the insert of
\* a new one; the commit may raise, and it raises IntegrityError on a second
\* row for the message.
SaveFeedbackCommit(c) ==
    /\ fb[c].pc = "selected"
    /\ \E db \in Outcomes(0) : \E t \in Now(clock) :
         LET new_feedback ==
                 NewFeedback(Len(feedback) + 1, fb[c].message_id,
                             fb[c].rating, fb[c].comment, t)
             refused == /\ fb[c].existing = None
                        /\ UniqueViolation(feedback, new_feedback)
         IN  /\ faults' = faults + Cost(db)
             /\ clock' = t
             /\ IF db = "raise" \/ refused
                THEN /\ fb' = [fb EXCEPT ![c].pc = "raised",
                                  ![c].error = IF db = "raise"
                                               THEN "OperationalError"
                                               ELSE "IntegrityError"]
                     /\ UNCHANGED <<feedback, last_saved>>
                ELSE /\ feedback' =
                          IF fb[c].existing # None
                          THEN UpdateFeedback(feedback, fb[c].existing,
                                   fb[c].rating, fb[c].comment, t)
                          ELSE Append(feedback, new_feedback)
                     /\ last_saved' = [last_saved EXCEPT
                                          ![fb[c].message_id] = fb[c].rating]
                     /\ fb' = [fb EXCEPT ![c].pc = "done"]
    /\ UNCHANGED <<cfgVars, call, chat_history, app, view, pc, session_id,
                   state, frame, result, args, trace, llm_calls, retr_log,
                   count_log, seen, raised_by>>

\* select(ChatHistory, Feedback.rating).outerjoin(Feedback, ChatHistory.id
\* == Feedback.message_id): a (turn, rating) pair per matching feedback
\* row, and one with NULL for a turn without any.
RECURSIVE OuterJoin(_, _)
OuterJoin(rows, fbrows) ==
    IF rows = <<>> THEN <<>>
    ELSE LET history == Head(rows)
             matches == SelectSeq(fbrows,
                            LAMBDA f : f.message_id = history.id)
         IN  (IF matches = <<>> THEN << <<history, NoRating>> >>
              ELSE [i \in 1..Len(matches) |-> <<history, matches[i].rating>>])
             \o OuterJoin(Tail(rows), fbrows)

\* get_history_for_display() of the chain of session sid: the joined pairs
\* of the session ordered by request_start_time, as (id, user_message,
\* bot_response, rating) tuples.
GetHistoryForDisplay(sid) ==
    LET joined == SelectSeq(OuterJoin(chat_history, feedback),
                            LAMBDA p : p[1].session_id = sid)
        sorted == PySort([i \in 1..Len(joined) |->
                             <<joined[i], joined[i][1].request_start_time>>],
                         FALSE)
    IN  [i \in 1..Len(sorted) |->
            <<sorted[i][1][1].id, sorted[i][1][1].user_message,
              sorted[i][1][1].bot_response, sorted[i][1][2]>>]

\* ------------------------------------------------------ specifications
\* The store and scores the orchestrator runs on: the default K settings, an
\* empty store or one of MaxChunks chunks; query "q1" finds the chunks in store
\* order and "q22" in the opposite order.
PipelineDistance(n) ==
    [q \in Questions |->
        [c \in 1..n |-> IF q = "q1" THEN Min(c - 1, MaxScore)
                        ELSE Min(n - c, MaxScore)]]
PipelineRelevance(n) ==
    [q \in Questions |->
        [c \in 1..n |-> IF q = "q1" THEN c % (MaxScore + 1)
                        ELSE (n - c) % (MaxScore + 1)]]

NoArgs == [question |-> "", is_synthetic |-> FALSE,
           request_start_time |-> None]
NoRetrieval == [search |-> "none", scorer |-> "none", context |-> <<>>,
                retrieval_end_time |-> None]

NoCounts == [user |-> "none", bot |-> "none"]

PipeInitOn(R, rows) ==
    /\ chat_history = rows
    /\ clock = 0
    /\ app = NoApp
    /\ view = [r \in R |-> NoView]
    /\ args = [r \in R |-> NoArgs]
    /\ pc = [r \in R |-> "idle"]
    /\ session_id = [r \in R |-> "s1"]
    /\ state = [r \in R |-> NoState]
    /\ frame = [r \in R |-> NoFrame]
    /\ result = [r \in R |-> NoResult]
    /\ trace = [r \in R |-> <<>>]
    /\ llm_calls = [r \in R |-> <<>>]
    /\ retr_log = [r \in R |-> NoRetrieval]
    /\ count_log = [r \in R |-> NoCounts]
    /\ seen = [r \in R |->
                [at_start |-> {}, loaded |-> {}, inserted |-> {}]]
    /\ faults = 0
    /\ raised_by = [r \in R |-> "none"]
    /\ feedback = <<>>
    /\ fb = [c \in FbCalls |-> NoFeedbackCall]
    /\ last_saved = [m \in 1..Len(rows) |-> NoRating]

PipeInitOver(R) == PipeInitOn(R, <<>>)

PipeInit == PipeInitOver(Requests)

Init ==
    /\ kRaw = DEFAULT_SEARCH_K_RAW
    /\ kFinal = DEFAULT_SEARCH_K_FINAL
    /\ db_dir_exists \in BOOLEAN
    /\ nChunks \in (IF db_dir_exists THEN {0, MaxChunks} ELSE {0})
    /\ distance = PipelineDistance(nChunks)
    /\ relevance = PipelineRelevance(nChunks)
    /\ call = NoCall
    /\ PipeInit

Next ==
    \/ AppStart
    \/ \E r \in Requests :
        \/ Begin(r)
        \/ LoadHistory(r)
        \/ Retrieve(r)
        \/ GenerateInvoke(r)
        \/ GenerateSave(r)

Spec == Init /\ [][Next]_vars

\* The orchestrator when every external call returns or raises and the
\* event loop runs every invocation that can go on: a step of an invocation
\* that stays possible is taken.  NLive invocations on an empty store or a
\* store of LiveChunks chunks.
Step(r) ==
    LoadHistory(r) \/ Retrieve(r) \/ GenerateInvoke(r) \/ GenerateSave(r)

LiveInit ==
    /\ kRaw = DEFAULT_SEARCH_K_RAW
    /\ kFinal = DEFAULT_SEARCH_K_FINAL
    /\ db_dir_exists \in BOOLEAN
    /\ nChunks \in (IF db_dir_exists THEN {0, LiveChunks} ELSE {0})
    /\ distance = PipelineDistance(nChunks)
    /\ relevance = PipelineRelevance(nChunks)
    /\ call = NoCall
    /\ PipeInitOver(LiveRequests)

LiveNext ==
    \/ AppStart
    \/ \E r \in LiveRequests :
        \/ Begin(r)
        \/ LoadHistory(r)
        \/ Retrieve(r)
        \/ GenerateInvoke(r)
        \/ GenerateSave(r)

LiveSpec ==
    LiveInit /\ [][LiveNext]_vars /\ \A r \in LiveRequests : WF_vars(Step(r))

\* save_feedback called NFb times, in any interleaving, on a table of
\* FbTurns stored turns: the first turn on session "s2", the others on "s1".
StoredTurn(id) ==
    LET question == IF id % 2 = 1 THEN "q1" ELSE "q22"
        answer == LLMAnswer(<<[type |-> "human", content |-> question]>>)
    IN  ChatEntry(id, IF id = 1 THEN "s2" ELSE "s1", question, answer, FALSE,
                  [user_chars |-> Len(question), bot_chars |-> Len(answer),
                   user_tokens |-> 2, bot_tokens |-> 1,
                   request_start_time |-> 0, retrieval_end_time |-> 0,
                   response_end_time |-> 0])

FbInit ==
    /\ kRaw = DEFAULT_SEARCH_K_RAW
    /\ kFinal = DEFAULT_SEARCH_K_FINAL
    /\ db_dir_exists = TRUE
    /\ nChunks = 0
    /\ distance = PipelineDistance(nChunks)
    /\ relevance = PipelineRelevance(nChunks)
    /\ call = NoCall
    /\ PipeInitOn(Requests, [id \in 1..FbTurns |-> StoredTurn(id)])

FbNext ==
    \/ AppStart
    \/ \E c \in FbCalls :
        \/ SaveFeedbackSelect(c)
        \/ SaveFeedbackCommit(c)

FbSpec == FbInit /\ [][FbNext]_vars

\* The orchestrator called NSeq times one after another, as one page does:
\* an invocation begins when the one before it has returned or raised.
SeqBegin(r) ==
    /\ \A r2 \in 1..(r - 1) : pc[r2] \in {"done", "raised"}
    /\ Begin(r)

SeqInit ==
    /\ kRaw = DEFAULT_SEARCH_K_RAW
    /\ kFinal = DEFAULT_SEARCH_K_FINAL
    /\ db_dir_exists = TRUE
    /\ nChunks \in {0, MaxChunks}
    /\ distance = PipelineDistance(nChunks)
    /\ relevance = PipelineRelevance(nChunks)
    /\ call = NoCall
    /\ PipeInitOver(SeqRequests)

SeqNext ==
    \/ AppStart
    \/ \E r \in SeqRequests :
        \/ SeqBegin(r)
        \/ LoadHistory(r)
        \/ Retrieve(r)
        \/ GenerateInvoke(r)
        \/ GenerateSave(r)

SeqSpec == SeqInit /\ [][SeqNext]_vars

\* The retrieval engine alone, on every store of up to MaxChunks chunks with
\* every small K setting, and on a store of ScenarioChunks chunks with the
\* default K settings (there with one distance assignment and every
\* relevance assignment):
\* "q1" has the chunks numbered by ascending distance, "q22" sees the
\* distances the other way round and the complementary relevance.
RetrConfigs ==
    {<<kr, kf, n>> : kr \in 1..MaxK, kf \in 0..MaxK, n \in 0..MaxChunks}
    \cup {<<DEFAULT_SEARCH_K_RAW, DEFAULT_SEARCH_K_FINAL, ScenarioChunks>>}

RetrInit ==
    /\ \E cfg \in RetrConfigs :
         kRaw = cfg[1] /\ kFinal = cfg[2] /\ nChunks = cfg[3]
    /\ \E d \in [1..nChunks -> Scores], rl \in [1..nChunks -> Scores] :
         /\ \A c \in 1..nChunks : c > 1 => d[c - 1] <= d[c]
         /\ kRaw = DEFAULT_SEARCH_K_RAW =>
                d = [c \in 1..nChunks |-> Min(c - 1, MaxScore)]
         /\ distance = [q \in Questions |->
                [c \in 1..nChunks |->
                    IF q = "q1" THEN d[c] ELSE d[nChunks + 1 - c]]]
         /\ relevance = [q \in Questions |->
                [c \in 1..nChunks |->
                    IF q = "q1" THEN rl[c] ELSE MaxScore - rl[c]]]
    /\ db_dir_exists = TRUE
    /\ call = NoCall
    /\ PipeInit

RetrNext ==
    \/ CallRetrieveContextWithScores
    \/ RerunRetrieveContextWithScores
    \/ CallRetrieveContextVectorSearchOnly
    \/ CallRetrieveContext

RetrSpec == RetrInit /\ [][RetrNext]_vars

\* ============================================================ properties
\* --- helpers of the properties
\* Request r called the LLM and the call raised.
LLMFailed(r) ==
    llm_calls[r] # <<>> /\ llm_calls[r][Len(llm_calls[r])].outcome = "raise"

\* The system message of `messages` carries no document text.
EmptyContextPrompt(messages) ==
    \E d \in 0..MaxClock :
        messages[1].content = SystemPrompt(<<>>, ToString(d))

\* The row with identifier id, as a set (empty when there is none).
RowsWithId(id) ==
    {i \in 1..Len(chat_history) : chat_history[i].id = id}

Stages == <<"load_history", "retrieve", "generate">>

\* --- the retrieval engine (RetrSpec)

\* C6: for any query, store and K settings, the result of
\* retrieve_context_with_scores has at most SEARCH_K_FINAL entries and the
\* candidate list between recall and re-ranking at most SEARCH_K_RAW.
C6_LengthBounds ==
    call.op = "with_scores" =>
        /\ Len(call.result) <= kFinal
        /\ Len(call.candidates) <= kRaw

\* A store larger than K_raw > K_final > 0: both truncations act.
C6_Witness ==
    /\ call.op = "with_scores"
    /\ call.scorer = "ok"
    /\ nChunks > kRaw /\ kRaw > kFinal /\ kFinal > 0
    /\ Len(call.candidates) = kRaw
    /\ Len(call.result) = kFinal

\* C7: the relevance scores of a result of retrieve_context_with_scores are
\* non-increasing along the returned order.
C7_RelevanceNonIncreasing ==
    call.op = "with_scores" =>
        \A i, j \in 1..Len(call.result) :
            i < j => call.result[i][2] >= call.result[j][2]

\* A result of two or more entries with distinct scores whose best entry
\* was not the nearest candidate: the sort moved it to the front.
C7_Witness ==
    /\ call.op = "with_scores"
    /\ Len(call.result) >= 2
    /\ call.result[1][2] > call.result[Len(call.result)][2]
    /\ call.result[1][1] # call.candidates[1][1]

\* C8: the distances of a result of retrieve_context_vector_search_only are
\* non-decreasing along the returned order, and the result has at most
\* SEARCH_K_FINAL entries.
C8_DistanceNonDecreasing ==
    call.op = "vector_only" =>
        /\ \A i, j \in 1..Len(call.result) :
               i < j => call.result[i][2] <= call.result[j][2]
        /\ Len(call.result) <= kFinal

\* A store larger than K_final, a result of K_final >= 2 entries of
\* different distances.
C8_Witness ==
    /\ call.op = "vector_only"
    /\ nChunks > kFinal
    /\ Len(call.result) = kFinal
    /\ Len(call.result) >= 2
    /\ call.result[1][2] < call.result[Len(call.result)][2]

\* C11: when the vector search and the scorer succeed,
\* retrieve_context_with_scores over a store of N chunks returns exactly
\* min(K_final, K_raw, N) entries, displayed with the ranks 1..that length;
\* with the default settings (K_raw = 20, K_final = 3) over a store of
\* ScenarioChunks >= 3 chunks recall yields all of them and the result has
\* exactly K_final entries; with K_raw < K_final the call does not raise and
\* returns everything recall produced.
C11_ExactLength ==
    (call.op = "with_scores" /\ call.search = "ok" /\ call.scorer # "raise")
    => LET expected == Min(kFinal, Min(kRaw, nChunks))
       IN  /\ ~call.raised
           /\ Len(call.result) = expected
           /\ DOMAIN DisplaySearchResults(call.result) = 1..expected
           /\ (kRaw = DEFAULT_SEARCH_K_RAW /\ kFinal = DEFAULT_SEARCH_K_FINAL
               /\ nChunks = ScenarioChunks)
              => /\ Len(call.candidates) = ScenarioChunks
                 /\ Len(call.result) = DEFAULT_SEARCH_K_FINAL
           /\ kRaw < kFinal => Len(call.result) = Len(call.candidates)

\* The scenario: the default settings over ScenarioChunks chunks, all of
\* them recalled, K_final of them returned.
C11_Witness ==
    /\ call.op = "with_scores"
    /\ call.scorer = "ok"
    /\ kRaw = DEFAULT_SEARCH_K_RAW /\ kFinal = DEFAULT_SEARCH_K_FINAL
    /\ nChunks = ScenarioChunks
    /\ Len(call.candidates) = ScenarioChunks
    /\ Len(call.result) = DEFAULT_SEARCH_K_FINAL
    /\ DOMAIN DisplaySearchResults(call.result) = 1..DEFAULT_SEARCH_K_FINAL

RecallIndex(c) ==
    IF \E k \in 1..Len(call.candidates) : call.candidates[k][1].chunk = c
    THEN CHOOSE k \in 1..Len(call.candidates) :
             call.candidates[k][1].chunk = c
    ELSE 0

\* C24: in a result of retrieve_context_with_scores, entries of equal
\* relevance score stand in their recall order; and a recalled candidate
\* that was cut off has no higher score than any entry kept and, where its
\* score equals that of an entry kept, was recalled after it.
C24_StableTies ==
    (call.op = "with_scores" /\ call.scorer = "ok") =>
        /\ \A i, j \in 1..Len(call.result) :
               (i < j /\ call.result[i][2] = call.result[j][2])
               => RecallIndex(call.result[i][1].chunk)
                      < RecallIndex(call.result[j][1].chunk)
        /\ \A k \in 1..Len(call.candidates) :
               LET c == call.candidates[k][1].chunk
                   kept == \E i \in 1..Len(call.result) :
                               call.result[i][1].chunk = c
               IN  ~kept =>
                       \A i \in 1..Len(call.result) :
                           /\ call.result[i][2] >= relevance[call.query][c]
                           /\ call.result[i][2] = relevance[call.query][c]
                              => RecallIndex(call.result[i][1].chunk) < k

\* K_final = 1 and the two best candidates tied: the one recalled first is
\* the one returned, the other is cut off.
C24_Witness ==
    /\ call.op = "with_scores"
    /\ call.scorer = "ok"
    /\ kFinal = 1
    /\ Len(call.result) = 1
    /\ \E k \in 1..Len(call.candidates) :
           /\ k > RecallIndex(call.result[1][1].chunk)
           /\ relevance[call.query][call.candidates[k][1].chunk]
                  = call.result[1][2]
    /\ RecallIndex(call.result[1][1].chunk) > 1

\* C28: every (chunk, score) pair a retrieval with re-ranking returns is a
\* recall candidate with the score the scorer gave that chunk's (query,
\* content) pair; no chunk is returned that was not recalled, and none
\* twice.  retrieve_context returns the chunks of those pairs.
C28_PairsKept ==
    (call.op \in {"with_scores", "context"}) =>
        /\ \A i \in 1..Len(call.result) :
               LET doc == IF call.op = "with_scores" THEN call.result[i][1]
                          ELSE call.result[i]
               IN  /\ RecallIndex(doc.chunk) > 0
                   /\ call.candidates[RecallIndex(doc.chunk)][1] = doc
                   /\ doc = Doc(doc.chunk)
                   /\ call.op = "with_scores" =>
                          call.result[i][2] = relevance[call.query][doc.chunk]
        /\ \A i, j \in 1..Len(call.result) :
               i # j => call.result[i] # call.result[j]
        /\ \A i, j \in 1..Len(call.result) :
               (i # j /\ call.op = "with_scores")
               => call.result[i][1].chunk # call.result[j][1].chunk

\* A result of several pairs in another order than they were recalled in,
\* with different scores, cut from a longer candidate list.
C28_Witness ==
    /\ call.op = "with_scores"
    /\ Len(call.result) >= 2
    /\ Len(call.candidates) > Len(call.result)
    /\ call.result[1][2] # call.result[2][2]
    /\ RecallIndex(call.result[1][1].chunk)
           > RecallIndex(call.result[2][1].chunk)

\* --- the orchestrator (Spec)

\* C1 as stated: whatever the outcomes of history loading, retrieval, token
\* counting, the LLM call and the database write, generate_response returns
\* a result with an answer string, and message_id is null only when the LLM
\* call failed.
C1_AlwaysReturns ==
    \A r \in Requests :
        /\ pc[r] # "raised"
        /\ pc[r] = "done" =>
              /\ result[r].answer # ""
              /\ result[r].message_id = None => LLMFailed(r)

\* C1 amended: an invocation ends without a result only by an exception of
\* the history query, of the vector search or of the database write (commit
\* or refresh); a failure of the scorer, of token counting or of the LLM
\* never does that.  An invocation that returns has an answer string, and
\* its message_id is null exactly when the LLM call failed.
C1_ReturnsUnlessStorageOrSearchRaises ==
    \A r \in Requests :
        /\ pc[r] = "raised" =>
              /\ raised_by[r] \in {"history_query", "retrieval",
                                   "commit_raise", "refresh_raise"}
              /\ raised_by[r] = "retrieval" => retr_log[r].search = "raise"
        /\ pc[r] = "done" =>
              /\ result[r].answer # ""
              /\ result[r].message_id = None <=> LLMFailed(r)

\* One invocation left by an exception, another returned with a saved turn.
C1_Witness ==
    \E r1, r2 \in Requests :
        /\ pc[r1] = "raised"
        /\ pc[r2] = "done"
        /\ result[r2].message_id # None

\* C2: when the LLM call raises, generate_response returns the answer
\* "Erro técnico: <exception message>" with a null message_id, and the
\* invocation inserts no ChatHistory row.
C2_LLMFailureNotPersisted ==
    \A r \in Requests :
        LLMFailed(r) =>
            /\ pc[r] = "done"
            /\ result[r] = [answer |-> "Erro técnico: "
                                       \o llm_calls[r][1].error,
                            message_id |-> None]
            /\ seen[r].inserted = {}
            /\ \A i \in 1..Len(chat_history) :
                   chat_history[i].bot_response # result[r].answer

\* An LLM failure on a session that already holds a turn.
C2_Witness ==
    \E r \in Requests :
        /\ LLMFailed(r)
        /\ pc[r] = "done"
        /\ \E i \in 1..Len(chat_history) :
               chat_history[i].session_id = session_id[r]

\* C3: every persisted row carries the complete, consistent metric set: the
\* three timestamps, the three durations as their differences, both
\* character counts, both token counts, the user text and the bot text.
C3_RowsComplete ==
    \A i \in 1..Len(chat_history) :
        LET row == chat_history[i]
        IN  /\ row.id = i
            /\ row.request_start_time # None
            /\ row.retrieval_end_time # None
            /\ row.response_end_time # None
            /\ row.retrieval_duration_sec =
                   row.retrieval_end_time - row.request_start_time
            /\ row.generation_duration_sec =
                   row.response_end_time - row.retrieval_end_time
            /\ row.total_duration_sec =
                   row.response_end_time - row.request_start_time
            /\ row.user_message \in Questions
            /\ row.bot_response # ""
            /\ row.user_chars = Len(row.user_message)
            /\ row.bot_chars = Len(row.bot_response)
            /\ row.user_tokens >= 0
            /\ row.bot_tokens >= 0

\* Two persisted rows, one of them with a positive duration.
C3_Witness ==
    /\ Len(chat_history) = 2
    /\ \E i \in 1..2 : chat_history[i].total_duration_sec > 0

\* C4: the stages of one invocation run in the order load_history, retrieve,
\* generate, each at most once and none before the one before it has
\* returned; an invocation that reaches generate has run each exactly once.
C4_StageOrder ==
    \A r \in Requests :
        /\ Len(trace[r]) <= Len(Stages)
        /\ trace[r] = SubSeq(Stages, 1, Len(trace[r]))
        /\ pc[r] = "load_history" => trace[r] = <<>>
        /\ pc[r] = "retrieve" => trace[r] = SubSeq(Stages, 1, 1)
        /\ pc[r] = "generate" => trace[r] = SubSeq(Stages, 1, 2)
        /\ pc[r] \in {"save_message", "done"} => trace[r] = Stages

\* An invocation that returned, all three stages run.
C4_Witness ==
    \E r \in Requests : pc[r] = "done" /\ trace[r] = Stages

\* C5 as stated: the loaded history holds only turns committed before the
\* invocation began, for any interleaving.
C5_LoadedBeforeBegin ==
    \A r \in Requests : seen[r].loaded \subseteq seen[r].at_start

\* C5 amended: the loaded history never holds the invocation's own turn;
\* a loaded turn that was not committed when the invocation began was
\* committed, before the history query ran, by another request on the same
\* session.
C5_LoadedBeforeQuery ==
    \A r \in Requests :
        /\ seen[r].loaded \cap seen[r].inserted = {}
        /\ \A id \in seen[r].loaded \ seen[r].at_start :
               \E r2 \in Requests \ {r} :
                   /\ id \in seen[r2].inserted
                   /\ session_id[r2] = session_id[r]

\* A history query that found a turn committed after the invocation began.
C5_Witness ==
    \E r \in Requests :
        /\ seen[r].loaded \ seen[r].at_start # {}
        /\ pc[r] = "done"

\* C9: when the cross-encoder raises, the retrieval returns an empty
\* sequence and raises nothing; generate_response goes on to the LLM call
\* with an empty context.
C9_ScorerFailureDegrades ==
    \A r \in Requests :
        retr_log[r].scorer = "raise" =>
            /\ raised_by[r] # "retrieval"
            /\ pc[r] = "generate" => state[r].context = <<>>
            /\ pc[r] \in {"save_message", "done"} => Len(llm_calls[r]) = 1
            /\ \A i \in 1..Len(llm_calls[r]) :
                   EmptyContextPrompt(llm_calls[r][i].messages)

\* The scorer raised on a non-empty recall and the turn was still answered
\* and saved.
C9_Witness ==
    \E r \in Requests :
        /\ retr_log[r].scorer = "raise"
        /\ nChunks > 0
        /\ pc[r] = "done"
        /\ result[r].message_id # None

\* C10: on an empty vector store the retrieval returns [] without raising
\* and generate_response calls the LLM with an empty context; when the LLM
\* answers, it returns a non-empty answer and the non-null id of the one
\* turn it persisted.
C10_EmptyStore ==
    nChunks = 0 =>
        \A r \in Requests :
            /\ raised_by[r] = "retrieval" => retr_log[r].search = "raise"
            /\ pc[r] = "generate" => state[r].context = <<>>
            /\ \A i \in 1..Len(llm_calls[r]) :
                   EmptyContextPrompt(llm_calls[r][i].messages)
            /\ pc[r] = "done" =>
                  /\ Len(llm_calls[r]) = 1
                  /\ result[r].answer # ""
            /\ pc[r] = "done" /\ ~LLMFailed(r) =>
                  /\ result[r].message_id # None
                  /\ seen[r].inserted = {result[r].message_id}
                  /\ \A i \in RowsWithId(result[r].message_id) :
                         chat_history[i].bot_response = result[r].answer
                  /\ Cardinality(RowsWithId(result[r].message_id)) = 1

\* An invocation on the empty store, no external failure, answered and saved.
C10_Witness ==
    /\ nChunks = 0
    /\ faults = 0
    /\ \E r \in Requests :
           /\ pc[r] = "done"
           /\ retr_log[r].search = "ok"
           /\ result[r].message_id # None

\* C13: for every persisted turn, over a clock that never goes back,
\* retrieval_duration_sec >= 0, generation_duration_sec >= 0 and
\* total_duration_sec = retrieval_duration_sec + generation_duration_sec.
C13_Durations ==
    \A i \in 1..Len(chat_history) :
        LET row == chat_history[i]
        IN  /\ row.retrieval_duration_sec >= 0
            /\ row.generation_duration_sec >= 0
            /\ row.total_duration_sec =
                   row.retrieval_duration_sec + row.generation_duration_sec

\* Two persisted turns, one whose retrieval took time and one whose
\* generation did.
C13_Witness ==
    \E i, j \in 1..Len(chat_history) :
        /\ chat_history[i].retrieval_duration_sec > 0
        /\ chat_history[j].generation_duration_sec > 0
        /\ chat_history[i].total_duration_sec > 0

\* The invocation is between its begin and its end.
InFlight(r) ==
    pc[r] \in {"load_history", "retrieve", "generate", "save_message"}

\* The row invocation r inserted, as a set (empty when it inserted none).
OwnRows(r) ==
    {chat_history[i] : i \in {k \in 1..Len(chat_history) :
                                 chat_history[k].id \in seen[r].inserted}}

\* C14: the is_synthetic value passed to generate_response is the one in
\* the pipeline state at every stage and the one stored in the persisted
\* turn, for True and for False.
C14_SyntheticFlagKept ==
    \A r \in Requests :
        /\ InFlight(r) => state[r].is_synthetic = args[r].is_synthetic
        /\ \A row \in OwnRows(r) : row.is_synthetic = args[r].is_synthetic

\* One turn stored with the flag True and one with the flag False, as
\* their invocations were given.
C14_Witness ==
    \E r1, r2 \in Requests :
        /\ args[r1].is_synthetic /\ ~args[r2].is_synthetic
        /\ \E row \in OwnRows(r1) : row.is_synthetic
        /\ \E row \in OwnRows(r2) : ~row.is_synthetic

\* --- sequential invocations (SeqSpec)

\* Invocation r2 returned an answer of the LLM with the id of its saved turn.
Successful(r2) == pc[r2] = "done" /\ result[r2].message_id # None

\* The write of invocation r2 was committed.
Committed(r2) == seen[r2].inserted # {}

\* The invocations before r on r's session that satisfy Ok, in call order.
EarlierOnSession(r, Ok(_)) ==
    SelectSeq([i \in 1..(r - 1) |-> i],
              LAMBDA r2 : session_id[r2] = session_id[r] /\ Ok(r2))

\* The turns of the invocations rs as messages: question then answer.
TurnsAsMessages(rs) ==
    [k \in 1..(2 * Len(rs)) |->
        LET r2 == rs[(k + 1) \div 2]
        IN  IF k % 2 = 1
            THEN [type |-> "human", content |-> args[r2].question]
            ELSE [type |-> "ai",
                  content |-> LLMAnswer(llm_calls[r2][1].messages)]]

\* The history of invocation r is in the pipeline state.
HistoryLoaded(r) == pc[r] \in {"retrieve", "generate", "save_message"}

\* C12 as stated: after n successful sequential calls on a session (and any
\* number of failed ones) the next call's loaded history is exactly those n
\* turns, as 2n messages alternating user then assistant, in ascending
\* request-time order.
C12_HistoryOfSuccessfulCalls ==
    \A r \in SeqRequests :
        HistoryLoaded(r) =>
            LET rs == EarlierOnSession(r, Successful)
            IN  /\ state[r].history = TurnsAsMessages(rs)
                /\ \A i, j \in 1..Len(rs) :
                       i < j => args[rs[i]].request_start_time
                                   <= args[rs[j]].request_start_time

\* C12 amended: the loaded history is exactly the turns of the earlier calls
\* on the session whose write was committed, one whose refresh raised after
\* the commit included, as alternating user / assistant messages in
\* ascending request-time order.
C12_HistoryOfCommittedCalls ==
    \A r \in SeqRequests :
        HistoryLoaded(r) =>
            LET rs == EarlierOnSession(r, Committed)
            IN  /\ state[r].history = TurnsAsMessages(rs)
                /\ Len(state[r].history) = 2 * Len(rs)
                /\ \A k \in 1..Len(state[r].history) :
                       state[r].history[k].type =
                           (IF k % 2 = 1 THEN "human" ELSE "ai")
                /\ \A i, j \in 1..Len(rs) :
                       i < j => args[rs[i]].request_start_time
                                   <= args[rs[j]].request_start_time

\* A third call that loaded the two turns of two earlier successful calls
\* on its session, made at different times with different questions, after
\* which the second of two calls had loaded exactly the first turn.
C12_Witness ==
    /\ HistoryLoaded(3)
    /\ EarlierOnSession(3, Successful) = <<1, 2>>
    /\ seen[2].loaded = seen[1].inserted
    /\ Len(state[3].history) = 4
    /\ args[1].question # args[2].question
    /\ args[1].request_start_time < args[2].request_start_time

\* --- rows and invocations (Spec)

\* C15: generate_response does no deduplication: every successful call adds
\* one row of its own, whose id it returns; two successful calls, be they
\* with the same question on the same session, leave two rows with different
\* ids, and k successful calls k rows.
C15_NoDeduplication ==
    LET ok == {r \in Requests : Successful(r)}
    IN  /\ \A r \in ok :
               /\ seen[r].inserted = {result[r].message_id}
               /\ Cardinality(RowsWithId(result[r].message_id)) = 1
        /\ \A r1, r2 \in ok :
               r1 # r2 => result[r1].message_id # result[r2].message_id
        /\ Cardinality(UNION {RowsWithId(result[r].message_id) : r \in ok})
               = Cardinality(ok)

\* Two successful calls with the same question and flag on the same session,
\* two rows with that question.
C15_Witness ==
    \E r1, r2 \in Requests :
        /\ r1 # r2
        /\ Successful(r1) /\ Successful(r2)
        /\ session_id[r1] = session_id[r2]
        /\ args[r1].question = args[r2].question
        /\ args[r1].is_synthetic = args[r2].is_synthetic
        /\ \E i, j \in 1..Len(chat_history) :
               /\ i # j
               /\ chat_history[i].user_message = args[r1].question
               /\ chat_history[j].user_message = args[r1].question
               /\ chat_history[i].session_id = chat_history[j].session_id

\* --- the page (Spec)

\* The database write of invocation r failed after the LLM had answered.
WriteFailed(r) == raised_by[r] \in {"commit_raise", "refresh_raise"}

\* C16: when the database write fails after a successful LLM call, the
\* failure leaves generate_response, the page shows an error and it still
\* shows the answer the LLM had just generated.
C16_AnswerShownOnWriteFailure ==
    \A r \in Requests :
        WriteFailed(r) =>
            /\ pc[r] = "raised"
            /\ view[r].error # ""
            /\ view[r].answer = LLMAnswer(llm_calls[r][1].messages)

\* A write that failed after the LLM answered: the failure left
\* generate_response and the page shows the error.
C16_Witness ==
    \E r \in Requests :
        /\ WriteFailed(r)
        /\ llm_calls[r][1].outcome = "ok"
        /\ pc[r] = "raised"
        /\ view[r].error # ""

\* C17: when the directory of the vector store is absent at start-up, the
\* VectorRetriever constructor raises FileNotFoundError before it loads any
\* model, the construction is not tried again, and the page halts with an
\* error message and accepts no question.
C17_MissingIndexHalts ==
    (~db_dir_exists /\ app.status # "starting") =>
        /\ app.status = "halted"
        /\ app.attempted = <<>>
        /\ app.constructions = 1
        /\ app.error = StartupError("FileNotFoundError")
        /\ app.error # ""
        /\ \A r \in Requests : pc[r] = "idle"

\* The start-up ran without the directory and halted.
C17_Witness ==
    /\ ~db_dir_exists
    /\ app.status = "halted"
    /\ app.constructions = 1

\* --- concurrent invocations (Spec)

\* The LLM call of invocation r succeeded and its write was committed: it
\* returned the id of its row, or the refresh after the commit raised.
WroteTurn(r) == Successful(r) \/ raised_by[r] = "refresh_raise"

\* C19: for any interleaving of concurrent requests, every request whose LLM
\* call succeeded and whose write committed has exactly one row of its own
\* in the table, with its session, question and answer; every other request
\* has none; no two rows share an id and no row belongs to two requests; the
\* number of rows is the number of such requests.
C19_OneRowPerCommittedRequest ==
    /\ \A r \in Requests :
           IF WroteTurn(r)
           THEN /\ Cardinality(seen[r].inserted) = 1
                /\ Cardinality(OwnRows(r)) = 1
                /\ \A row \in OwnRows(r) :
                       /\ row.session_id = session_id[r]
                       /\ row.user_message = args[r].question
                       /\ row.bot_response =
                              LLMAnswer(llm_calls[r][1].messages)
           ELSE seen[r].inserted = {}
    /\ \A r1, r2 \in Requests :
           r1 # r2 => seen[r1].inserted \cap seen[r2].inserted = {}
    /\ \A i, j \in 1..Len(chat_history) :
           i # j => chat_history[i].id # chat_history[j].id
    /\ Len(chat_history) = Cardinality({r \in Requests : WroteTurn(r)})

\* Two requests on one session, each begun before the other committed, both
\* committed: two rows.
C19_Witness ==
    \E r1, r2 \in Requests :
        /\ r1 # r2
        /\ session_id[r1] = session_id[r2]
        /\ WroteTurn(r1) /\ WroteTurn(r2)
        /\ seen[r1].at_start = {} /\ seen[r2].at_start = {}
        /\ seen[r1].loaded = {} /\ seen[r2].loaded = {}
        /\ Len(chat_history) = 2

\* C20: pipeline state is private to one invocation: for any interleaving,
\* while a request is in flight its state holds its own question, flag and
\* start time; the row it persists carries its own question, is_synthetic,
\* request_start_time and retrieval_end_time; and the answer returned to
\* (and shown to) its caller is the one generated from its own question and
\* its own retrieved context.
C20_StatePrivate ==
    \A r \in Requests :
        /\ InFlight(r) =>
               /\ state[r].question = args[r].question
               /\ state[r].is_synthetic = args[r].is_synthetic
               /\ state[r].request_start_time = args[r].request_start_time
        /\ \A row \in OwnRows(r) :
               /\ row.user_message = args[r].question
               /\ row.is_synthetic = args[r].is_synthetic
               /\ row.request_start_time = args[r].request_start_time
               /\ row.retrieval_end_time = retr_log[r].retrieval_end_time
        /\ (pc[r] = "done" /\ ~LLMFailed(r)) =>
               LET messages == llm_calls[r][1].messages
               IN  /\ messages[Len(messages)].content = args[r].question
                   /\ \E d \in 0..MaxClock :
                          messages[1].content =
                              SystemPrompt(DocsContent(retr_log[r].context),
                                           ToString(d))
                   /\ result[r].answer = LLMAnswer(messages)
                   /\ view[r].answer = result[r].answer

\* Two requests in flight together, with different questions, flags and
\* contexts and different start and retrieval times, both returned and
\* saved.
C20_Witness ==
    \E r1, r2 \in Requests :
        /\ Successful(r1) /\ Successful(r2)
        /\ seen[r1].at_start = {} /\ seen[r2].at_start = {}
        /\ args[r1].question # args[r2].question
        /\ args[r1].is_synthetic # args[r2].is_synthetic
        /\ args[r1].request_start_time # args[r2].request_start_time
        /\ retr_log[r1].context # retr_log[r2].context
        /\ result[r1].answer # result[r2].answer

\* --- storage (Spec)

\* C21: the only change a generate_response invocation makes to the
\* persisted turns is one insert, made by the save at the end of generate
\* after the LLM answered: load_history, retrieve and the LLM call leave the
\* table as it is, and every row that was there stays, with the same fields.
C21_OnlyOneInsert ==
    /\ [](\A r \in Requests : Cardinality(seen[r].inserted) <= 1)
    /\ [][\/ chat_history' = chat_history
          \/ /\ Len(chat_history') = Len(chat_history) + 1
             /\ SubSeq(chat_history', 1, Len(chat_history)) = chat_history
             /\ \E r \in Requests :
                    /\ pc[r] = "save_message"
                    /\ pc'[r] \in {"done", "raised"}
                    /\ llm_calls[r][1].outcome = "ok"
                    /\ seen[r].inserted = {}
                    /\ seen'[r].inserted =
                           {chat_history'[Len(chat_history')].id}]_vars

\* An invocation that loaded a turn of its session and retrieved, then
\* added its own row after it.
C21_Witness ==
    \E r \in Requests :
        /\ pc[r] = "done"
        /\ seen[r].loaded # {}
        /\ Len(chat_history) = 2
        /\ seen[r].inserted = {chat_history[2].id}
        /\ chat_history[1].id \in seen[r].loaded

\* --- timestamps (Spec)

\* C22: from the end of retrieve onward the pipeline state has
\* retrieval_end_time >= request_start_time, and the response_end_time read
\* after the LLM call is >= retrieval_end_time; so has every persisted turn.
\* retrieval_end_time is the clock value read when the retrieval call
\* returned, be the result empty or not, not the value the initial state
\* was given.
C22_TimestampOrder ==
    /\ [](\A r \in Requests :
            /\ pc[r] \in {"generate", "save_message"} =>
                   /\ state[r].retrieval_end_time
                          >= state[r].request_start_time
                   /\ state[r].retrieval_end_time
                          = retr_log[r].retrieval_end_time
            /\ pc[r] = "save_message" =>
                   frame[r].response_end_time
                       >= state[r].retrieval_end_time)
    /\ [](\A i \in 1..Len(chat_history) :
            /\ chat_history[i].retrieval_end_time
                   >= chat_history[i].request_start_time
            /\ chat_history[i].response_end_time
                   >= chat_history[i].retrieval_end_time)
    /\ [][\A r \in Requests :
            (pc[r] = "retrieve" /\ pc'[r] = "generate") =>
                /\ state'[r].retrieval_end_time = clock'
                /\ clock' >= clock
                /\ clock' >= state[r].retrieval_end_time]_vars

\* An empty retrieval whose end time, the clock's value, is later than the
\* request's start time.
C22_Witness ==
    \E r \in Requests :
        /\ pc[r] = "generate"
        /\ state[r].context = <<>>
        /\ state[r].retrieval_end_time > state[r].request_start_time
        /\ state[r].retrieval_end_time = clock

\* --- the LLM call (Spec)

\* Invocation r has entered generate.
ReachedGenerate(r) == \E k \in 1..Len(trace[r]) : trace[r][k] = "generate"

\* C23: an invocation that reaches generate calls the LLM exactly once, be
\* the call a failure or a success; one that does not reach it never calls
\* the LLM.
C23_OneLLMCall ==
    \A r \in Requests :
        Len(llm_calls[r]) = (IF ReachedGenerate(r) THEN 1 ELSE 0)

\* One invocation ended after its LLM call failed, another after its LLM
\* call succeeded: one call each.
C23_Witness ==
    \E r1, r2 \in Requests :
        /\ pc[r1] = "done" /\ LLMFailed(r1) /\ Len(llm_calls[r1]) = 1
        /\ pc[r2] = "done" /\ Successful(r2) /\ Len(llm_calls[r2]) = 1

\* --- token counting (Spec)

\* C25: a failure of the input or of the output token count sets that token
\* metric to 0 and never ends the turn: no exception of a count leaves
\* generate_response, the LLM is called after a failed input count, and
\* when the LLM answered and the write went through the turn is persisted,
\* with the 0, and its message_id returned.
C25_CountFailureIsZero ==
    \A r \in Requests :
        /\ (count_log[r].user = "raise" /\ pc[r] = "save_message")
               => frame[r].user_tokens = 0
        /\ count_log[r].user = "raise" => Len(llm_calls[r]) = 1
        /\ \A row \in OwnRows(r) :
               /\ count_log[r].user = "raise" => row.user_tokens = 0
               /\ count_log[r].bot = "raise" => row.bot_tokens = 0
               /\ count_log[r].user = "ok" => row.user_tokens > 0
               /\ count_log[r].bot = "ok" => row.bot_tokens > 0
        /\ pc[r] = "raised" =>
               raised_by[r] \in {"history_query", "retrieval",
                                 "commit_raise", "refresh_raise"}
        /\ (pc[r] = "done" /\ ~LLMFailed(r)) =>
               /\ result[r].message_id # None
               /\ Cardinality(OwnRows(r)) = 1

\* A turn whose input count failed: the LLM was called and answered, the
\* turn was saved with user_tokens = 0 and its message_id returned.
C25_Witness ==
    \E r \in Requests :
        /\ count_log[r].user = "raise"
        /\ count_log[r].bot = "ok"
        /\ Successful(r)
        /\ \E row \in OwnRows(r) : row.user_tokens = 0 /\ row.bot_tokens > 0

\* --- the prompt (SeqSpec)

\* The system message the template stands for: the date in the template's
\* date placeholder and the chunk contents, as retrieved, in its context
\* placeholder.
IntendedSystemPrompt(context, current_date) ==
    Flat(Replace(Replace(system_prompt, DATE_PLACEHOLDER, <<current_date>>),
                 CONTEXT_PLACEHOLDER, DocsContent(context)))

\* The messages of invocation r's LLM call are a system message with
\* content `system`, the loaded history, and the question last.
MessagesAre(r, system) ==
    LET messages == llm_calls[r][1].messages
        n == Len(messages)
    IN  /\ n = 2 * Cardinality(seen[r].loaded) + 2
        /\ messages[1] = [type |-> "system", content |-> system]
        /\ messages[n] = [type |-> "human", content |-> args[r].question]
        /\ SubSeq(messages, 2, n - 1)
               = TurnsAsMessages(EarlierOnSession(r, Committed))
        /\ pc[r] = "save_message"
               => SubSeq(messages, 2, n - 1) = state[r].history

\* C26 as stated: the messages sent to the LLM are exactly one system
\* message (the template with the retrieved chunk contents, in rank order
\* and joined by a blank line, and the current date), then the loaded
\* history in its order, then the question; 2 * (loaded turns) + 2 in all.
C26_MessagesExact ==
    \A r \in SeqRequests :
        llm_calls[r] # <<>> =>
            \E d \in 0..MaxClock :
                MessagesAre(r, IntendedSystemPrompt(retr_log[r].context,
                                                    ToString(d)))

\* What holds: the same, with the system message the code builds, in which
\* the date has been put into the chunk contents as well.
C26_MessagesUpToDate ==
    \A r \in SeqRequests :
        llm_calls[r] # <<>> =>
            \E d \in 0..MaxClock :
                MessagesAre(r, SystemPrompt(DocsContent(retr_log[r].context),
                                            ToString(d)))

\* A third call with two loaded turns and three retrieved chunks, one of
\* which quotes the date placeholder: six messages.
C26_Witness ==
    /\ Len(llm_calls[3]) = 1
    /\ Len(llm_calls[3][1].messages) = 6
    /\ Cardinality(seen[3].loaded) = 2
    /\ Len(retr_log[3].context) = 3
    /\ \E i \in 1..3 : \E k \in 1..Len(retr_log[3].context[i].page_content) :
           retr_log[3].context[i].page_content[k] = DATE_PLACEHOLDER

\* --- the returned id (Spec)

\* C27: whenever generate_response returns a non-null message_id m, the
\* table holds exactly one row with identifier m, and that row has the
\* chain's session_id, the question passed in as user_message and the answer
\* returned to the caller as bot_response.
C27_ReturnedIdNamesOwnRow ==
    \A r \in Requests :
        (pc[r] = "done" /\ result[r].message_id # None) =>
            /\ Cardinality(RowsWithId(result[r].message_id)) = 1
            /\ \A i \in RowsWithId(result[r].message_id) :
                   /\ chat_history[i].session_id = session_id[r]
                   /\ chat_history[i].user_message = args[r].question
                   /\ chat_history[i].bot_response = result[r].answer

\* Two calls that returned ids, the second the id 2, on different sessions
\* with different questions.
C27_Witness ==
    \E r1, r2 \in Requests :
        /\ pc[r1] = "done" /\ result[r1].message_id = 1
        /\ pc[r2] = "done" /\ result[r2].message_id = 2
        /\ session_id[r1] # session_id[r2]
        /\ args[r1].question # args[r2].question

\* --- termination (LiveSpec)

\* C29: provided each external call returns or raises, every
\* generate_response invocation that has begun reaches its end, a returned
\* result or a propagated exception, and enters no stage a second time.
C29_Terminates ==
    /\ [](\A r \in LiveRequests : Len(trace[r]) <= Len(Stages))
    /\ \A r \in LiveRequests : InFlight(r) ~> (pc[r] \in {"done", "raised"})

\* An invocation ended with its result after the three stages, each
\* entered once, on a store that has a chunk.
C29_Witness ==
    \E r \in LiveRequests :
        /\ pc[r] = "done"
        /\ trace[r] = Stages
        /\ nChunks > 0

\* --- feedback (FbSpec)

\* The feedback rows of message m.
FeedbackOf(m) == {i \in 1..Len(feedback) : feedback[i].message_id = m}

\* The history page of session sid shows the turn chat_entry once, with
\* the rating of the last save_feedback call that committed for it.
ShownOnce(sid, chat_entry) ==
    LET shown == GetHistoryForDisplay(sid)
    IN  \E i \in 1..Len(shown) :
          /\ shown[i] = <<chat_entry.id, chat_entry.user_message,
                          chat_entry.bot_response, last_saved[chat_entry.id]>>
          /\ \A k \in 1..Len(shown) : shown[k][1] = chat_entry.id => k = i

\* A call that found a row and committed rewrote rating, comment and
\* timestamp of that row and left the rest of the table as it was.
UpdatedInPlace(c) ==
    (fb[c].pc = "selected" /\ fb'[c].pc = "done" /\ fb[c].existing # None) =>
        \E i \in 1..Len(feedback) :
            /\ feedback[i].id = fb[c].existing
            /\ feedback' = [feedback EXCEPT ![i] =
                              [@ EXCEPT !.rating = fb[c].rating,
                                        !.comment = fb[c].comment,
                                        !.timestamp = clock']]

\* C30: at any time, also between the select and the commit of concurrent
\* save_feedback calls for one message, the table holds at most one feedback
\* row per message; a call that found a row updates its rating, comment and
\* timestamp in place; get_history_for_display returns each turn of the
\* session exactly once, with the rating last committed for it.
C30_OneFeedbackPerMessage ==
    /\ [](\A m \in 1..Len(chat_history) : Cardinality(FeedbackOf(m)) <= 1)
    /\ [](\A j \in 1..Len(chat_history) :
            ShownOnce(chat_history[j].session_id, chat_history[j]))
    /\ [][\A c \in FbCalls : UpdatedInPlace(c)]_vars

\* Two calls for one message both found no row: one inserted, the other was
\* refused; a third call found the row and changed its rating.
C30_Witness ==
    \E c1, c2, c3 \in FbCalls :
        /\ fb[c1].message_id = fb[c2].message_id
        /\ fb[c3].message_id = fb[c1].message_id
        /\ fb[c1].existing = None /\ fb[c1].pc = "done"
        /\ fb[c2].existing = None /\ fb[c2].pc = "raised"
        /\ fb[c2].error = "IntegrityError"
        /\ fb[c3].existing # None /\ fb[c3].pc = "done"
        /\ fb[c3].rating # fb[c1].rating
        /\ last_saved[fb[c3].message_id] = fb[c3].rating
        /\ Cardinality(FeedbackOf(fb[c3].message_id)) = 1
====
